---- MODULE Spec2Model ----
(***************************************************************************)
(* A model of CVService (src/services/cvService.ts), the per-frame pill    *)
(* counting pipeline.  The file holds two builds of the service: the       *)
(* clustering build (lines 1-424: enhancement, watershed, feature          *)
(* extraction, clusterPills) and the binary build (lines 425-780:          *)
(* watershed, feature extraction, normal/broken status, duplicate merge).  *)
(*                                                                         *)
(* OpenCV itself is outside the repository.  Its calls are modelled by     *)
(* what processFrame sees of them: an allocation that hands back a handle  *)
(* (or throws), minMaxLoc returning the largest label, findContours        *)
(* returning the region of the label at hand.                              *)
(*                                                                         *)
(* Numbers.  JavaScript numbers are held in fixed point:                   *)
(*   - areas in px^2, perimeters in px, hue in degrees, saturation and     *)
(*     value in percent;                                                   *)
(*   - ratios (circularity, relDiff, hDist, sDist, vDist) in 1/FP;         *)
(*   - the weighted distance in 1/(FP * 100);                              *)
(*   - positions in 1/POS px, radii in 1/10 px.                            *)
(***************************************************************************)
EXTENDS Integers, Sequences, FiniteSets, TLC

\* ------------------------------------------------------------------ bounds

\* The largest label the watershed returns in a modelled frame (labels
\* 2..MaxLabel are candidate regions).
MaxLabel == 4

\* The longest list of pills handed to clusterPills or to the merge step when
\* they are checked on their own.
MaxPills == 3
MaxMany == 28
MaxPixels == 7
MaxTicks == 8

\* ------------------------------------------------------ number conventions

FP == 100 * 100
POS == 3 * 4

Abs(n) == IF n < 0 THEN 0 - n ELSE n
Max2(a, b) == IF a > b THEN a ELSE b

\* Integer square root, rounded down.
ISqrt(n) == CHOOSE r \in 0..1000 : r * r <= n /\ (r + 1) * (r + 1) > n

Range(s) == {s[j] : j \in 1..Len(s)}

RECURSIVE SumOver(_, _)
SumOver(f, S) ==
  IF S = {} THEN 0
  ELSE LET e == CHOOSE e \in S : TRUE IN f[e] + SumOver(f, S \ {e})

\* --------------------------------------------------------- program constants

\* cvService.ts:309 and :626 -- the plausible-area window of a region.
MIN_AREA == 200
MAX_AREA_CLUSTERING == 10000
MAX_AREA_BINARY == 8000

\* cvService.ts:649 -- circularity above which a pill is normal, in 1/FP.
CIRC_THRESHOLD == 6500

\* cvService.ts:89-92 -- clusterPills' threshold (1/(FP*100)) and gates.
DISTANCE_THRESHOLD == 140000
MAX_AREA_DIFF == 3500
MAX_CIRC_DIFF == 1800
MAX_SAT_DIFF == 20

\* cvService.ts:119-124 -- feature weights, in hundredths.
GRAY_SAT == 15
W_HUE_GRAY == 5
W_HUE == 35
W_SAT == 25
W_VAL == 5
W_CIRC == 20
W_SIZE == 15

\* cvService.ts:678 -- merge distance, px.
MERGE_THRESHOLD == 30

\* 4 * Math.PI in 1/FP (cvService.ts:319, :628) and the factor of
\* area / Math.PI in 1/100 px^2 (cvService.ts:349, :656): 100/pi = 125000/3927.
FOUR_PI == 4 * 31416
RADIUS_NUM == 5 * 25000
RADIUS_DEN == 7 * 561

\* cvService.ts:80-87 -- the palette of clusterPills.
clusterColors == <<"#00FFFF", "#FF00FF", "#FFFF00", "#00FF00", "#FFA500", "#FF0000">>

\* String.fromCharCode(65 + n), cvService.ts:143.
CharCodes ==
  <<"A", "B", "C", "D", "E", "F", "G", "H", "I", "J", "K", "L", "M",
    "N", "O", "P", "Q", "R", "S", "T", "U", "V", "W", "X", "Y", "Z",
    "[", "chr(92)", "]", "^", "_", "chr(96)", "a", "b", "c", "d">>
fromCharCode65(n) == CharCodes[n + 1]

\* ------------------------------------------------------------ feature maths

\* cvService.ts:319 and :628 -- (4 * Math.PI * area) / (perimeter * perimeter),
\* in 1/FP.  The quotient is rounded up, so that "circularity > t" for t on
\* the 1/FP grid decides as it does on the exact quotient.
Circularity(area, perimeter) ==
  (FOUR_PI * area + perimeter * perimeter - 1) \div (perimeter * perimeter)

\* cvService.ts:317-320 -- the clustering build guards the division.
GuardedCircularity(area, perimeter) ==
  IF perimeter > 0 THEN Circularity(area, perimeter) ELSE 0

\* A radius taken as Math.sqrt(area) / Math.PI.
RadiusSqrtOverPi(area) == (ISqrt(area * 100) * RADIUS_NUM) \div (RADIUS_DEN * 100)

\* cvService.ts:349 and :656 -- Math.sqrt(area / Math.PI), in 1/10 px.
RadiusOf(area) == ISqrt((area * RADIUS_NUM) \div RADIUS_DEN)

\* A status that takes circularity 0.65 for normal.
StatusInclusive(circularity) ==
  IF circularity >= CIRC_THRESHOLD THEN "normal" ELSE "broken"

\* cvService.ts:649 -- circularity > 0.65 ? 'normal' : 'broken'.
StatusOf(circularity) ==
  IF circularity > CIRC_THRESHOLD THEN "normal" ELSE "broken"

\* An area window without its lower edge.
AreaBelowCeiling(area) == area < MAX_AREA_CLUSTERING

\* An area window that lets its edges in.
AreaOkInclusive(area) == area >= MIN_AREA /\ area <= MAX_AREA_CLUSTERING

\* cvService.ts:309 -- the area window of the clustering build.
AreaOkClustering(area) == area > MIN_AREA /\ area < MAX_AREA_CLUSTERING

\* cvService.ts:626 -- the area window and perimeter test of the binary build.
AreaOkBinary(area, perimeter) ==
  area > MIN_AREA /\ area < MAX_AREA_BINARY /\ perimeter > 0

\* cvService.ts:344-363 -- the Pill pushed by the clustering build for label
\* id and region r (hue, saturation and value are those of lines 336-342).
ClusterPillOf(id, r) ==
  [id |-> id, x |-> r.cx * POS, y |-> r.cy * POS, area |-> r.area,
   radius |-> RadiusOf(r.area),
   hue |-> r.hue, saturation |-> r.saturation, value |-> r.value,
   circularity |-> GuardedCircularity(r.area, r.perimeter),
   status |-> "-", clusterLabel |-> "?", clusterColor |-> "#FFFFFF"]

\* cvService.ts:651-660 -- the Pill pushed by the binary build.
BinaryPillOf(id, r) ==
  [id |-> id, x |-> r.cx * POS, y |-> r.cy * POS, area |-> r.area,
   radius |-> RadiusOf(r.area),
   hue |-> r.hue, saturation |-> r.saturation, value |-> r.value,
   circularity |-> 0,
   status |-> StatusOf(Circularity(r.area, r.perimeter)),
   clusterLabel |-> "-", clusterColor |-> "-"]

\* ------------------------------------------------------------- clusterPills

\* A difference that is not taken relative to the larger value.
relDiffAbsolute(a, b) == Abs(a - b) * FP

\* cvService.ts:94-98.
relDiff(a, b) ==
  LET max == Max2(Abs(a), Abs(b))
  IN IF max = 0 THEN 0 ELSE (Abs(a - b) * FP) \div max

\* Gates of which only the area gate is left.
PassesAreaGate(pill, center) == ~(relDiff(pill.area, center.area) > MAX_AREA_DIFF)

\* cvService.ts:109-111 -- the three gates; a cluster that fails one is skipped.
PassesGates(pill, center) ==
  /\ ~(relDiff(pill.area, center.area) > MAX_AREA_DIFF)
  /\ ~(Abs(pill.circularity - center.circularity) > MAX_CIRC_DIFF)
  /\ ~(Abs(pill.saturation - center.saturation) > MAX_SAT_DIFF)

\* cvService.ts:113-115.
hDist(pill, center) ==
  LET d == Abs(pill.hue - center.hue)
      hDiff == IF d > 180 THEN 360 - d ELSE d
  IN (hDiff * FP) \div 180

\* cvService.ts:119-120.
w_hue(pill, center) ==
  IF pill.saturation < GRAY_SAT \/ center.saturation < GRAY_SAT
  THEN W_HUE_GRAY ELSE W_HUE

\* cvService.ts:126-132, in 1/(FP * 100).
weightedDist(pill, center) ==
  LET sDist == (Abs(pill.saturation - center.saturation) * FP) \div 100
      vDist == (Abs(pill.value - center.value) * FP) \div 100
      wh == w_hue(pill, center)
      sum == hDist(pill, center) * wh + sDist * W_SAT + vDist * W_VAL
             + Abs(pill.circularity - center.circularity) * W_CIRC
             + relDiff(pill.area, center.area) * W_SIZE
  IN (sum * 100) \div (wh + W_SAT + W_VAL + W_CIRC + W_SIZE)

\* cvService.ts:102 -- Infinity: above every weighted distance.
Infinity == 1000 * FP * 100

\* A scan in which a cluster at the same distance replaces the best so far.
ImprovesOrEqual(wd, minDistance) == wd <= minDistance

\* cvService.ts:134 -- a cluster replaces the best so far.
Improves(wd, minDistance) == wd < minDistance

\* cvService.ts:101-138 -- the scan of the clusters for one pill; best = 0 is
\* the code's bestClusterIndex = -1.
RECURSIVE ScanClusters(_, _, _, _)
ScanClusters(pill, cs, idx, acc) ==
  IF idx > Len(cs) THEN acc
  ELSE LET center == cs[idx].center
           wd == weightedDist(pill, center)
           next == IF PassesGates(pill, center) /\ Improves(wd, acc.minDistance)
                   THEN [best |-> idx, minDistance |-> wd]
                   ELSE acc
       IN ScanClusters(pill, cs, idx + 1, next)

BestCluster(pill, cs) ==
  ScanClusters(pill, cs, 1, [best |-> 0, minDistance |-> Infinity])

\* A join that takes a distance of exactly the threshold.
JoinsInclusive(best, minDistance) == best # 0 /\ minDistance <= DISTANCE_THRESHOLD

\* cvService.ts:140 -- join the best cluster, or found a new one.
Joins(best, minDistance) == best # 0 /\ minDistance < DISTANCE_THRESHOLD

\* A new cluster whose colour stays at the last palette entry once the
\* palette is used up.
NewClusterClamped(cs, pill) ==
  [label |-> fromCharCode65(Len(cs)),
   center |-> pill,
   members |-> <<pill>>,
   colorHex |-> clusterColors[(IF Len(cs) < Len(clusterColors)
                               THEN Len(cs) ELSE Len(clusterColors) - 1) + 1]]

\* cvService.ts:143-152.
NewCluster(cs, pill) ==
  [label |-> fromCharCode65(Len(cs)),
   center |-> pill,
   members |-> <<pill>>,
   colorHex |-> clusterColors[(Len(cs) % Len(clusterColors)) + 1]]

\* An iteration that makes the joining pill the centre of its cluster.
AssignPillRecentre(cs, pill) ==
  LET b == BestCluster(pill, cs)
  IN IF Joins(b.best, b.minDistance)
     THEN [cs EXCEPT ![b.best].members = Append(@, pill), ![b.best].center = pill]
     ELSE Append(cs, NewCluster(cs, pill))

\* An iteration that loses the pill when it joins a cluster.
AssignPillLost(cs, pill) ==
  LET b == BestCluster(pill, cs)
  IN IF Joins(b.best, b.minDistance) THEN cs ELSE Append(cs, NewCluster(cs, pill))

\* cvService.ts:100-154 -- one iteration of pills.forEach.
AssignPill(cs, pill) ==
  LET b == BestCluster(pill, cs)
  IN IF Joins(b.best, b.minDistance)
     THEN [cs EXCEPT ![b.best].members = Append(@, pill)]
     ELSE Append(cs, NewCluster(cs, pill))

\* A clusterPills whose clusters outlive the call.
KeptClusters(old) == old

\* cvService.ts:71-77 -- clusterPills starts from no clusters, whatever the
\* clusters of the invocation before were.
FreshClusters(old) == << >>

\* cvService.ts:159-165.
StatsOf(cs) ==
  [j \in 1..Len(cs) |->
     [label |-> "Group " \o cs[j].label, count |-> Len(cs[j].members),
      color |-> cs[j].colorHex]]

\* cvService.ts:166-171 -- the members, cluster after cluster, labelled.
RECURSIVE LabelledFrom(_, _)
LabelledFrom(cs, j) ==
  IF j > Len(cs) THEN << >>
  ELSE [m \in 1..Len(cs[j].members) |->
          [cs[j].members[m] EXCEPT !.clusterLabel = cs[j].label,
                                   !.clusterColor = cs[j].colorHex]]
       \o LabelledFrom(cs, j + 1)

LabelledPills(cs) == LabelledFrom(cs, 1)

\* --------------------------------------------------------------- merge step

\* A sort by ascending radius.
BeforeAscending(a, b) == a.radius <= b.radius

\* cvService.ts:682 -- sort((a, b) => b.radius - a.radius): descending radius,
\* equal radii keeping their order (Array.prototype.sort is stable).
Before(a, b) == a.radius >= b.radius

RECURSIVE InsertSorted(_, _)
InsertSorted(sorted, p) ==
  IF sorted = << >> THEN <<p>>
  ELSE IF Before(Head(sorted), p) THEN <<Head(sorted)>> \o InsertSorted(Tail(sorted), p)
  ELSE <<p>> \o sorted

RECURSIVE SortFrom(_, _, _)
SortFrom(ps, j, acc) ==
  IF j > Len(ps) THEN acc ELSE SortFrom(ps, j + 1, InsertSorted(acc, ps[j]))

SortByRadius(ps) == SortFrom(ps, 1, << >>)

\* cvService.ts:696 -- Math.sqrt(dx^2 + dy^2), compared squared, in 1/POS px.
DistSq(a, b) == (a.x - b.x) * (a.x - b.x) + (a.y - b.y) * (a.y - b.y)

\* A merge test that takes a distance of exactly the threshold.
NearInclusive(a, b) == DistSq(a, b) <= (MERGE_THRESHOLD * POS) * (MERGE_THRESHOLD * POS)

\* A merge test on the sum of the horizontal and the vertical distance.
NearManhattan(a, b) == Abs(a.x - b.x) + Abs(a.y - b.y) < MERGE_THRESHOLD * POS

\* cvService.ts:698.
Near(a, b) == DistSq(a, b) < (MERGE_THRESHOLD * POS) * (MERGE_THRESHOLD * POS)

\* cvService.ts:706-707 -- totalX / count.
Mean(total, count) == total \div count

\* cvService.ts:684-710 -- the outer loop from index i on.  st.pills is the
\* array (its survivors are updated in place), st.processed the set
\* processedIndices, st.final the list finalPills.
RECURSIVE MergeFrom(_, _)
MergeFrom(st, i) ==
  IF i > Len(st.pills) THEN st
  ELSE IF i \in st.processed THEN MergeFrom(st, i + 1)
  ELSE
    LET current == st.pills[i]
        absorbed == {j \in (i + 1)..Len(st.pills) :
                       j \notin st.processed /\ Near(current, st.pills[j])}
        totalX == current.x + SumOver([j \in absorbed |-> st.pills[j].x], absorbed)
        totalY == current.y + SumOver([j \in absorbed |-> st.pills[j].y], absorbed)
        count == 1 + Cardinality(absorbed)
        merged == [current EXCEPT !.x = Mean(totalX, count), !.y = Mean(totalY, count)]
    IN MergeFrom([pills |-> [st.pills EXCEPT ![i] = merged],
                  processed |-> st.processed \cup absorbed \cup {i},
                  final |-> Append(st.final, merged)], i + 1)

\* cvService.ts:678-710 on an array already sorted.
MergeSorted(ps) == MergeFrom([pills |-> ps, processed |-> {}, final |-> << >>], 1)

\* ------------------------------------------------------------------- frames

\* What findContours and the feature calls return for one label: whether the
\* label has a contour at all, and the contour's area, perimeter, centroid
\* (px) and mean colour as hue, boosted saturation and value.
Region(contour, area, perimeter, cx, cy, hue, saturation, value) ==
  [contour |-> contour, area |-> area, perimeter |-> perimeter,
   cx |-> cx, cy |-> cy, hue |-> hue, saturation |-> saturation, value |-> value]

NoContour == Region(FALSE, 0, 0, 0, 0, 0, 0, 0)

\* The regions a modelled frame is made of: a label left without extent, a
\* single-pixel contour (area 0, perimeter 0), a
\* 50 px^2 speck, regions at the edges of the area windows (200, 8000, 10000),
\* two round pills 10 px apart, and a fragment of circularity 0.65 that lies
\* 30 px from the first pill and 20 px from the second.
RegionKinds ==
  { NoContour,
    Region(TRUE, 0, 0, 50, 50, 0, 0, 0),
    Region(TRUE, 50, 28, 40, 40, 0, 10, 80),
    Region(TRUE, 200, 52, 60, 40, 0, 10, 80),
    Region(TRUE, 1000, 112, 100, 100, 0, 50, 80),
    Region(TRUE, 1050, 115, 110, 100, 0, 50, 80),
    Region(TRUE, 2069, 200, 130, 100, 54, 64, 80),
    Region(TRUE, 8000, 320, 200, 200, 200, 50, 80),
    Region(TRUE, 10000, 360, 300, 200, 200, 50, 80) }

\* The regions of the frames shown when invocations are repeated.
RepeatKinds ==
  { Region(TRUE, 1000, 112, 100, 100, 0, 50, 80),
    Region(TRUE, 1050, 115, 110, 100, 0, 50, 80) }

\* The regions of the frames of the camera's video: a round pill, and a
\* label left without extent.
VideoKinds ==
  { NoContour,
    Region(TRUE, 1000, 112, 100, 100, 0, 50, 80) }

\* ------------------------------------------------------------------ buffers

\* cvService.ts:191-215 and :505-530 -- the buffer references of processFrame,
\* and the per-label contour of lines 305 and 621.
Buffers ==
  { "src", "srcRGB", "gammaMat", "gray", "blurred", "edges", "edge_dilated",
    "solid_mask", "edge_contours", "edge_hierarchy", "kernel", "sure_bg",
    "dist", "sure_fg", "sure_fg_8u", "unknown", "markers", "ones", "tempMask",
    "innerMask", "kernelErode", "compareMat", "tempContours", "tempHierarchy",
    "hull", "contour" }

\* cvService.ts:223-296 -- the try block of the clustering build up to the
\* label loop: each buffer in the order it is assigned, and the minMaxLoc
\* call that reads the largest label.
StagesClustering ==
  << "src", "srcRGB", "gammaMat", "gray", "blurred", "edges", "kernel",
     "edge_dilated", "edge_contours", "edge_hierarchy", "solid_mask",
     "sure_bg", "dist", "sure_fg", "sure_fg_8u", "unknown", "markers", "ones",
     "minMaxLoc", "tempMask", "innerMask", "kernelErode", "compareMat",
     "tempContours", "tempHierarchy", "hull" >>

\* cvService.ts:539-612 -- the same for the binary build.
StagesBinary ==
  << "src", "srcRGB", "gray", "blurred", "edges", "kernel",
     "edge_dilated", "edge_contours", "edge_hierarchy", "solid_mask",
     "sure_bg", "dist", "sure_fg", "sure_fg_8u", "unknown", "markers", "ones",
     "minMaxLoc", "tempMask", "innerMask", "kernelErode", "compareMat",
     "tempContours", "tempHierarchy" >>

\* cvService.ts:395-419 -- the finally block of the clustering build, in order.
CleanupClustering ==
  << "hull", "edges", "edge_dilated", "solid_mask", "edge_contours",
     "edge_hierarchy", "src", "srcRGB", "gammaMat", "gray", "blurred", "kernel",
     "sure_bg", "dist", "sure_fg", "sure_fg_8u", "unknown", "markers", "ones",
     "tempMask", "innerMask", "kernelErode", "compareMat", "tempContours",
     "tempHierarchy" >>

\* cvService.ts:750-775 -- the finally block of the binary build, in order.
CleanupBinary ==
  << "edges", "edge_dilated", "solid_mask", "edge_contours",
     "edge_hierarchy", "src", "srcRGB", "gray", "blurred", "kernel",
     "sure_bg", "dist", "sure_fg", "sure_fg_8u", "unknown", "markers", "ones",
     "tempMask", "innerMask", "kernelErode", "compareMat", "tempContours",
     "tempHierarchy" >>

\* cvService.ts:191-215 -- every reference starts null.
NullRefs == [b \in Buffers |-> "null"]

\* "if (x) x.delete()" down the list `order` from position j.  A reference is
\* null, live, or deleted (it still names an object that was released).
\* delete() on a released object is a misuse of the binding: embind throws
\* BindingError, and the rest of the block is skipped (onDouble = "throw");
\* a binding that lets it pass goes on (onDouble = "ignore").
RECURSIVE RunCleanup(_, _, _, _)
RunCleanup(order, j, r, onDouble) ==
  IF j > Len(order) THEN [ref |-> r, threw |-> FALSE, twice |-> FALSE]
  ELSE LET b == order[j] IN
    CASE r[b] = "null" -> RunCleanup(order, j + 1, r, onDouble)
      [] r[b] = "live" -> RunCleanup(order, j + 1, [r EXCEPT ![b] = "deleted"], onDouble)
      [] OTHER ->
           IF onDouble = "throw"
           THEN [ref |-> r, threw |-> TRUE, twice |-> TRUE]
           ELSE [RunCleanup(order, j + 1, r, onDouble) EXCEPT !.twice = TRUE]

\* -------------------------------------------------------------------- state

VARIABLES
  build,          \* "clustering" or "binary": which build of the service runs
  shown,          \* which regions the frames shown to it are made of
  pc,             \* where processFrame stands
  k,              \* the next entry of the build's stage list
  ref,            \* each buffer reference: "null", "live" or "deleted"
  doubleDelete,   \* delete() was called on a released object
  maxLabel,       \* markersMinMax.maxVal
  i,              \* the label loop's index
  frame,          \* the regions findContours returned, label 2 first
  detectedPills,  \* the array detectedPills
  clusters,       \* clusterPills' array clusters
  ci,             \* the next pill of pills.forEach in clusterPills
  finalPills,     \* clusteredPills (clustering) or finalPills (binary)
  stats,          \* clusterPills' stats
  pending,        \* the value the try or the catch block returns
  result,         \* what the caller received
  outcome,        \* "none", "returned" or "thrown"
  earlier,        \* an earlier invocation, kept for comparison
  again,          \* the merge step applied to its own output
  app,            \* the App component: its state, refs, timers and loop
  img             \* what the image buffers hold and which of them was read

vars ==
  << build, shown, pc, k, ref, doubleDelete, maxLabel, i, frame, detectedPills,
     clusters, ci, finalPills, stats, pending, result, outcome, earlier, again,
     app, img >>

\* The values processFrame returns (processingTime is a clock reading and is
\* kept only as present or absent).
NoResult == [kind |-> "none"]
EmptyResult == [kind |-> "empty"]

\* cvService.ts:385-389.
ClusterResult(pills, st) ==
  [kind |-> "clusters", totalCount |-> Len(pills), clusters |-> st,
   processingTime |-> TRUE]

\* cvService.ts:736-743.
BinaryResult(pills) ==
  [kind |-> "counts",
   normalCount |-> Cardinality({j \in 1..Len(pills) : pills[j].status = "normal"}),
   brokenCount |-> Cardinality({j \in 1..Len(pills) : pills[j].status = "broken"}),
   processingTime |-> TRUE]

\* part_001:281-316 and :427-432 -- the App as it is mounted: nothing is
\* ready or active, the readiness poll runs and the first animation frame is
\* requested.  engine says whether window.cv is loaded.  fpsTarget is 1 and
\* lastFrameTimeRef 0 (part_001:286, :302); timestamp is that of the last
\* animation frame, calls the number of calls of processFrame begun, ended
\* how the last of them ended.
Mounted(engine) ==
  [engine |-> engine, polling |-> TRUE, lastPoll |-> "none", cvReady |-> FALSE,
   camera |-> "off", isAnalyzing |-> FALSE,
   raf |-> TRUE, loop |-> "waiting", did |-> "none",
   fpsTarget |-> 1, lastFrameTime |-> 0, timestamp |-> 0, calls |-> 0,
   ended |-> "none"]

\* cvService.ts:188-215 -- no image buffer exists yet.  content says, for each
\* image buffer, what was done to the video frame's pixels to give its
\* own; read, for each stage that takes an image, the content it was given;
\* sample, through which mask the last mean colour was taken; px, the
\* masks and the marker map pixel by pixel.
NoImage ==
  [content |-> [b \in {"src", "srcRGB", "gammaMat"} |-> <<"none">>],
   read |-> [st \in {"gray", "watershed", "mean"} |-> <<"none">>],
   sample |-> [mask |-> "none", nonZero |-> 0, pixels |-> 0],
   px |-> [step |-> "none"]]

NoEarlier == [kind |-> "none"]
NotAgain == [done |-> FALSE, pills |-> << >>]

Stages == IF build = "clustering" THEN StagesClustering ELSE StagesBinary
CleanupOrder == IF build = "clustering" THEN CleanupClustering ELSE CleanupBinary

\* The regions findContours may return in this run.
Shown ==
  IF shown = "repeat" THEN RepeatKinds
  ELSE IF shown = "video" THEN VideoKinds
  ELSE RegionKinds

InitOf(b, sh, component) ==
  /\ build = b
  /\ shown = sh
  /\ pc = "idle"
  /\ k = 1
  /\ ref = NullRefs
  /\ doubleDelete = FALSE
  /\ maxLabel = 0
  /\ i = 2
  /\ frame = << >>
  /\ detectedPills = << >>
  /\ clusters = << >>
  /\ ci = 1
  /\ finalPills = << >>
  /\ stats = << >>
  /\ pending = NoResult
  /\ result = NoResult
  /\ outcome = "none"
  /\ earlier = NoEarlier
  /\ again = NotAgain
  /\ app = component
  /\ img = NoImage

\* The service on its own: the engine is loaded and no handler of the App
\* takes part.
InitWith(b, sh) == InitOf(b, sh, Mounted(TRUE))

Init == \E b \in {"clustering", "binary"} : InitWith(b, "all")

conf == << build, shown, earlier, again, app >>
mem == << ref, doubleDelete >>
loopv == << maxLabel, i, frame >>
data == << detectedPills, clusters, ci, finalPills, stats >>
ret == << pending, result, outcome >>

\* ------------------------------------------------ processFrame: the image

\* The image buffer the build segments and samples: gammaMat in the
\* clustering build (cvService.ts:284, 336), srcRGB in the binary build
\* (:597, :643).
Working(b) == IF b = "clustering" THEN "gammaMat" ELSE "srcRGB"

\* The image after the statements that follow the assignment of buffer b, up
\* to the next assignment.  cvService.ts:226-239: src holds the frame's
\* pixels, srcRGB those converted and scaled by contrast, gammaMat those of
\* srcRGB gamma-corrected, and gray is converted from gammaMat; :541-547
\* (binary build): srcRGB and gray are both converted from src.
StageImage(im, b, bld) ==
  CASE b = "src" -> [im EXCEPT !.content["src"] = << >>]
    [] b = "srcRGB" ->
         [im EXCEPT !.content["srcRGB"] =
            IF bld = "clustering" THEN im.content["src"] \o <<"contrast">>
            ELSE im.content["src"]]
    [] b = "gammaMat" ->
         [im EXCEPT !.content["gammaMat"] = im.content["srcRGB"] \o <<"gamma">>]
    [] b = "gray" ->
         [im EXCEPT !.read["gray"] =
            im.content[IF bld = "clustering" THEN "gammaMat" ELSE "src"]]
    [] OTHER -> im

\* cvService.ts:284 and :597 -- cv.watershed reads the working image.
WatershedImage(im, bld) ==
  [im EXCEPT !.read["watershed"] = im.content[Working(bld)]]

\* A draw call on buffer b.
Drawn(im, b, call) ==
  IF call \in Range(im.content[b]) THEN im
  ELSE [im EXCEPT !.content[b] = @ \o <<call>>]

\* A sampling through the eroded mask whatever it holds.
MaskToUseInner(nonZero) == "innerMask"

\* cvService.ts:333 and :641 -- nonZero > 10 ? innerMask : tempMask.
MaskToUse(nonZero) == IF nonZero > 10 THEN "innerMask" ELSE "tempMask"

\* cvService.ts:331-336 and :636-643 -- the mask is eroded, its non-zero
\* pixels counted, and the mean colour of the working image taken through
\* the mask chosen.  The region's own mask holds its area in pixels at least.
SampleImage(im, bld, r, nonZero) ==
  [im EXCEPT !.read["mean"] = im.content[Working(bld)],
             !.sample = [mask |-> MaskToUse(nonZero), nonZero |-> nonZero,
                         pixels |-> IF MaskToUse(nonZero) = "innerMask"
                                    THEN nonZero ELSE r.area]]

\* cvService.ts:666 -- the binary build draws the contour of the pill it has
\* just pushed into srcRGB.
ContourDrawn(im, bld) ==
  IF bld = "binary" THEN Drawn(im, "srcRGB", "drawContours") ELSE im

\* cvService.ts:376-381 and :713-731 -- the pills are annotated in the
\* working image once the loop and the classification are over.
Annotated(im, bld, pills) ==
  IF pills = << >> THEN im
  ELSE Drawn(Drawn(im, Working(bld), "circle"), Working(bld), "putText")

\* The non-zero counts the eroded mask of a region may have: none, 10, 11,
\* or a quarter of the region.
ErodedCounts(r) == {0, 10, 11, r.area \div 4}

\* ----------------------------------------------------- processFrame: entry

\* cvService.ts:185-186 and :498-499 -- the engine is not ready: return {}.
NotReady ==
  /\ pc = "idle"
  /\ pc' = "returned"
  /\ result' = EmptyResult
  /\ outcome' = "returned"
  /\ UNCHANGED << conf, img, mem, loopv, data, k, pending >>

\* cvService.ts:185-217 and :498-532 -- the engine is ready: enter the try.
Enter ==
  /\ pc = "idle"
  /\ pc' = "context"
  /\ UNCHANGED << conf, img, mem, loopv, data, ret, k >>

\* cvService.ts:218-222 and :533-537 -- the 2D context is there.
GetContext ==
  /\ pc = "context"
  /\ pc' = "stages"
  /\ UNCHANGED << conf, img, mem, loopv, data, ret, k >>

\* cvService.ts:391-393 and :745-747 -- the catch block: log, return {}.
Catch ==
  /\ pending' = EmptyResult
  /\ pc' = "finally"

\* cvService.ts:219 and :534 -- no 2D context: throw new Error(...).
NoContext ==
  /\ pc = "context"
  /\ Catch
  /\ UNCHANGED << conf, img, mem, loopv, data, k, result, outcome >>

\* ---------------------------------------------------- processFrame: stages

\* The label loop's test, i <= maxLabel (cvService.ts:298 and :614): the next
\* position when the loop stands at label n.
AfterLabel(n, max) ==
  IF n <= max THEN "find"
  ELSE IF build = "clustering" THEN "cluster" ELSE "sort"

\* cvService.ts:223-296 and :539-612 -- one buffer of the stage list is
\* created and assigned to its reference.
Stage ==
  /\ pc = "stages"
  /\ k <= Len(Stages)
  /\ Stages[k] # "minMaxLoc"
  /\ ref' = [ref EXCEPT ![Stages[k]] = "live"]
  /\ k' = k + 1
  /\ pc' = IF k + 1 > Len(Stages) THEN AfterLabel(2, maxLabel) ELSE "stages"
  /\ img' = StageImage(img, Stages[k], build)
  /\ UNCHANGED << conf, doubleDelete, loopv, data, ret >>

\* cvService.ts:284-287 and :599-603 -- the watershed has run; minMaxLoc
\* returns the largest label (1 when there is background only).
MinMaxLoc ==
  /\ pc = "stages"
  /\ k <= Len(Stages)
  /\ Stages[k] = "minMaxLoc"
  /\ \E m \in 1..MaxLabel : maxLabel' = m
  /\ k' = k + 1
  /\ img' = WatershedImage(img, build)
  /\ UNCHANGED << conf, mem, i, frame, data, ret, pc >>

\* A call of the stage list, of the loop head, of clusterPills or of the
\* drawing code throws: control goes to the catch block.
Throws ==
  /\ pc \in {"stages", "find", "get", "cluster", "draw"}
  /\ Catch
  /\ UNCHANGED << conf, img, mem, loopv, data, k, result, outcome >>

\* ------------------------------------------------ processFrame: label loop

\* cvService.ts:299-304 and :615-620 -- compare and findContours for label i.
FindContours ==
  /\ pc = "find"
  /\ \E r \in Shown :
       /\ frame' = Append(frame, r)
       /\ pc' = IF r.contour THEN "get" ELSE "release"
  /\ UNCHANGED << conf, img, mem, maxLabel, i, data, ret, k >>

\* cvService.ts:305 and :621 -- contour = tempContours.get(0).
GetContour ==
  /\ pc = "get"
  /\ ref' = [ref EXCEPT !["contour"] = "live"]
  /\ pc' = "features"
  /\ UNCHANGED << conf, img, doubleDelete, loopv, data, ret, k >>

\* cvService.ts:307-364 -- the pills after the inner try of the clustering
\* build has handled label n with region r.
PushClustering(pills, n, r) ==
  IF AreaOkClustering(r.area) THEN Append(pills, ClusterPillOf(n, r)) ELSE pills

\* cvService.ts:623-667 -- the same for the binary build.
PushBinary(pills, n, r) ==
  IF AreaOkBinary(r.area, r.perimeter) THEN Append(pills, BinaryPillOf(n, r)) ELSE pills

\* cvService.ts:306-367 and :622-670 -- the inner try runs to its end, and
\* its finally releases the contour.
Features ==
  /\ pc = "features"
  /\ detectedPills' = IF build = "clustering"
                      THEN PushClustering(detectedPills, i, frame[Len(frame)])
                      ELSE PushBinary(detectedPills, i, frame[Len(frame)])
  /\ LET r == frame[Len(frame)]
         kept == IF build = "clustering" THEN AreaOkClustering(r.area)
                 ELSE AreaOkBinary(r.area, r.perimeter)
     IN IF kept
        THEN \E nonZero \in ErodedCounts(r) :
               img' = ContourDrawn(SampleImage(img, build, r, nonZero), build)
        ELSE img' = img
  /\ ref' = [ref EXCEPT !["contour"] = "deleted"]
  /\ pc' = "release"
  /\ UNCHANGED << conf, doubleDelete, loopv, clusters, ci, finalPills, stats, ret, k >>

\* cvService.ts:365-367 and :668-670 -- a call of the inner try throws: its
\* finally releases the contour, then the catch block runs.
FeaturesThrow ==
  /\ pc = "features"
  /\ ref' = [ref EXCEPT !["contour"] = "deleted"]
  /\ Catch
  /\ UNCHANGED << conf, img, doubleDelete, loopv, data, k, result, outcome >>

\* cvService.ts:369-371 and :673-675 -- tempContours is released and a new
\* MatVector takes its place; the loop goes to the next label.
Release ==
  /\ pc = "release"
  /\ ref' = [ref EXCEPT !["tempContours"] = "live"]
  /\ i' = i + 1
  /\ pc' = AfterLabel(i + 1, maxLabel)
  /\ img' = [img EXCEPT !.sample = NoImage.sample]
  /\ UNCHANGED << conf, doubleDelete, maxLabel, frame, data, ret, k >>

\* cvService.ts:369-370 and :673-674 -- tempContours is released and the
\* construction of its replacement throws: the reference keeps naming the
\* released MatVector.
ReleaseThrow ==
  /\ pc = "release"
  /\ ref' = [ref EXCEPT !["tempContours"] = "deleted"]
  /\ Catch
  /\ UNCHANGED << conf, img, doubleDelete, loopv, data, k, result, outcome >>

\* ---------------------------------------------- processFrame: clusterPills

\* cvService.ts:68-98 -- clusterPills is entered.
ClusterStart ==
  /\ pc = "cluster"
  /\ clusters' = FreshClusters(clusters)
  /\ ci' = 1
  /\ pc' = "assign"
  /\ UNCHANGED << conf, img, mem, loopv, detectedPills, finalPills, stats, ret, k >>

\* cvService.ts:100-154 -- pills.forEach handles the next pill.
Assign ==
  /\ pc = "assign"
  /\ ci <= Len(detectedPills)
  /\ clusters' = AssignPill(clusters, detectedPills[ci])
  /\ ci' = ci + 1
  /\ UNCHANGED << conf, img, mem, loopv, detectedPills, finalPills, stats, ret, k, pc >>

\* cvService.ts:156-174 (and :69 for no pills) -- stats and labelled pills.
ClusterEnd ==
  /\ pc = "assign"
  /\ ci > Len(detectedPills)
  /\ stats' = StatsOf(clusters)
  /\ finalPills' = LabelledPills(clusters)
  /\ pc' = "draw"
  /\ UNCHANGED << conf, img, mem, loopv, detectedPills, clusters, ci, ret, k >>

\* ------------------------------------------------ processFrame: merge step

\* cvService.ts:682.
Sort ==
  /\ pc = "sort"
  /\ detectedPills' = SortByRadius(detectedPills)
  /\ pc' = "merge"
  /\ UNCHANGED << conf, img, mem, loopv, clusters, ci, finalPills, stats, ret, k >>

\* cvService.ts:684-710.
Merge ==
  /\ pc = "merge"
  /\ LET st == MergeSorted(detectedPills)
     IN /\ detectedPills' = st.pills
        /\ finalPills' = st.final
  /\ pc' = "draw"
  /\ UNCHANGED << conf, img, mem, loopv, clusters, ci, stats, ret, k >>

\* ------------------------------------------- processFrame: return, finally

\* cvService.ts:376-389 and :713-743 -- annotate, imshow, return the counts.
Return ==
  /\ pc = "draw"
  /\ pending' = IF build = "clustering"
                THEN ClusterResult(finalPills, stats)
                ELSE BinaryResult(finalPills)
  /\ pc' = "finally"
  /\ img' = Annotated(img, build, finalPills)
  /\ UNCHANGED << conf, mem, loopv, data, k, result, outcome >>

\* The call ends after its finally block: with the pending value, or with
\* the exception the block raised.
Finish(c) ==
  /\ ref' = c.ref
  /\ doubleDelete' = c.twice
  /\ outcome' = IF c.threw THEN "thrown" ELSE "returned"
  /\ result' = IF c.threw THEN NoResult ELSE pending
  /\ pc' = "returned"
  /\ UNCHANGED << conf, img, loopv, data, k, pending >>

\* cvService.ts:394-420 and :748-776 -- the finally block.
Cleanup ==
  /\ pc = "finally"
  /\ Finish(RunCleanup(CleanupOrder, 1, ref, "throw"))

\* The finally block under a binding that lets a second delete() pass.
CleanupLenient ==
  /\ pc = "finally"
  /\ RunCleanup(CleanupOrder, 1, ref, "ignore").twice
  /\ Finish(RunCleanup(CleanupOrder, 1, ref, "ignore"))

Next ==
  \/ NotReady \/ Enter \/ GetContext \/ NoContext
  \/ Stage \/ MinMaxLoc \/ Throws
  \/ FindContours \/ GetContour \/ Features \/ FeaturesThrow
  \/ Release \/ ReleaseThrow
  \/ ClusterStart \/ Assign \/ ClusterEnd
  \/ Sort \/ Merge
  \/ Return \/ Cleanup \/ CleanupLenient

Spec == Init /\ [][Next]_vars

\* ------------------------------------------------------ repeated invocations

\* cvService.ts:188-215 and :501-530 -- the locals of a new invocation.
FreshLocals ==
  /\ k' = 1
  /\ ref' = NullRefs
  /\ doubleDelete' = FALSE
  /\ maxLabel' = 0
  /\ i' = 2
  /\ frame' = << >>
  /\ detectedPills' = << >>
  /\ finalPills' = << >>
  /\ stats' = << >>
  /\ pending' = NoResult
  /\ result' = NoResult
  /\ outcome' = "none"

\* The invocation that has just returned, as it is kept for comparison.
Kept == [kind |-> "some", maxLabel |-> maxLabel, frame |-> frame,
         result |-> result, between |-> FALSE]

\* The caller (processLoop) calls processFrame again.  The invocation that
\* ended may be kept for comparison when it returned counts and none is
\* kept yet; once one is kept, later invocations are noted as lying between.
Reinvoke ==
  /\ pc = "returned"
  /\ pc' = "idle"
  /\ FreshLocals
  /\ \/ /\ earlier.kind = "none"
        /\ outcome = "returned"
        /\ result.kind \in {"clusters", "counts"}
        /\ earlier' = Kept
     \/ /\ earlier.kind = "none"
        /\ earlier' = earlier
     \/ /\ earlier.kind = "some"
        /\ earlier' = [earlier EXCEPT !.between = TRUE]
  /\ UNCHANGED << build, shown, again, app, clusters, ci >>
  /\ img' = NoImage

InitRepeat == \E b \in {"clustering", "binary"} : InitWith(b, "repeat")

NextRepeat == Next \/ Reinvoke

SpecRepeat == InitRepeat /\ [][NextRepeat]_vars

\* ------------------------------------------------------------------ the App

\* Everything of processFrame's invocation, left as it is by the App's own
\* handlers.
service == << mem, loopv, data, ret, k, pc >>

\* The App's handlers and timers run one at a time on the main thread: none
\* runs while a call of processFrame is under way.
Between == app.loop = "waiting"

\* The script of the engine has loaded: window.cv and window.cv.Mat exist
\* (cvService.ts:5-7 reads them).
EngineLoads ==
  /\ Between
  /\ ~app.engine
  /\ app' = [app EXCEPT !.engine = TRUE]
  /\ UNCHANGED << build, shown, earlier, again, img, service >>

\* part_001:308-314 -- the 500 ms interval fires: isReady() is polled; on the
\* first true cvReady is set and the interval is cleared.
Poll ==
  /\ Between
  /\ app.polling
  /\ app' = IF app.engine
            THEN [app EXCEPT !.lastPoll = "true", !.cvReady = TRUE, !.polling = FALSE]
            ELSE [app EXCEPT !.lastPoll = "false"]
  /\ UNCHANGED << build, shown, earlier, again, img, service >>

\* part_001:561-562 and :319-338 -- the camera button, enabled once cvReady,
\* calls startCamera while the camera is not active; getUserMedia is pending.
StartCamera ==
  /\ Between
  /\ app.cvReady
  /\ app.camera # "on"
  /\ app' = [app EXCEPT !.camera = "starting"]
  /\ UNCHANGED << build, shown, earlier, again, img, service >>

\* part_001:336-345 and :352-357 -- the stream plays: setCameraActive(true).
\* processLoop depends on cameraActive, so its effect (427-432) runs again
\* and requests an animation frame.
CameraStarts ==
  /\ Between
  /\ app.camera = "starting"
  /\ app' = [app EXCEPT !.camera = "on", !.raf = TRUE]
  /\ UNCHANGED << build, shown, earlier, again, img, service >>

\* part_001:347-361 -- getUserMedia is refused, also on the fallback.
CameraFails ==
  /\ Between
  /\ app.camera = "starting"
  /\ app' = [app EXCEPT !.camera = "off"]
  /\ UNCHANGED << build, shown, earlier, again, img, service >>

\* part_001:364-373 -- stopCamera: the tracks stop, cameraActive and
\* isAnalyzing are cleared; the effect of processLoop runs again.
StopCamera ==
  /\ Between
  /\ app.camera = "on"
  /\ app' = [app EXCEPT !.camera = "off", !.isAnalyzing = FALSE, !.raf = TRUE]
  /\ UNCHANGED << build, shown, earlier, again, img, service >>

\* A start button that is enabled whether or not the camera is active.
StartAnalysisAnyTime ==
  /\ Between
  /\ ~app.isAnalyzing
  /\ app' = [app EXCEPT !.isAnalyzing = TRUE, !.raf = TRUE]
  /\ UNCHANGED << build, shown, earlier, again, img, service >>

\* part_001:583-584 -- the start button, enabled while cameraActive.
StartAnalysis ==
  /\ Between
  /\ ~app.isAnalyzing
  /\ app.camera = "on"
  /\ app' = [app EXCEPT !.isAnalyzing = TRUE, !.raf = TRUE]
  /\ UNCHANGED << build, shown, earlier, again, img, service >>

\* part_001:573-575 -- the stop button, shown while isAnalyzing.
StopAnalysis ==
  /\ Between
  /\ app.isAnalyzing
  /\ app' = [app EXCEPT !.isAnalyzing = FALSE, !.raf = TRUE]
  /\ UNCHANGED << build, shown, earlier, again, img, service >>

\* The timestamps, in ms, an animation frame may carry: quarters of a second.
Timestamps == {250 * n : n \in 0..MaxTicks}

\* The timestamps of the animation frames after the last one.
Later == {t \in Timestamps : t > app.timestamp}

\* The values of the fpsTarget slider (part_001:495, 1 to 5) whose interval
\* is a whole number of quarters of a second.
FpsKinds == {1, 2}

\* part_001:389 -- const interval = 1000 / fpsTarget.
Interval(fpsTarget) == 1000 \div fpsTarget

\* part_001:390 -- const elapsed = timestamp - lastFrameTimeRef.current.
Elapsed(timestamp, lastFrameTime) == timestamp - lastFrameTime

\* part_001:392 -- if (elapsed > interval).
IsDue(elapsed, interval) == elapsed > interval

\* part_001:393 -- timestamp - (elapsed % interval).
NextFrameTime(timestamp, elapsed, interval) == timestamp - (elapsed % interval)

\* part_001:376-387 -- the animation frame fires with analysis off: the video
\* is drawn as it is when the camera is active, and the next frame requested.
Preview ==
  /\ Between
  /\ app.raf
  /\ ~app.isAnalyzing
  /\ \E t \in Later :
       app' = [app EXCEPT !.did = IF app.camera = "on" THEN "preview" ELSE "nothing",
                          !.timestamp = t]
  /\ UNCHANGED << build, shown, earlier, again, img, service >>

\* part_001:389-392 and :424 -- analysis is on and the frame is not due yet
\* (elapsed <= interval): the next animation frame is requested.
NotDue ==
  /\ Between
  /\ app.raf
  /\ app.isAnalyzing
  /\ \E t \in Later :
       /\ ~IsDue(Elapsed(t, app.lastFrameTime), Interval(app.fpsTarget))
       /\ app' = [app EXCEPT !.did = "skipped", !.timestamp = t]
  /\ UNCHANGED << build, shown, earlier, again, img, service >>

\* part_001:389-405 -- analysis is on and the frame is due: processLoop calls
\* processFrame.  The callback that runs is no longer requested.
Due ==
  /\ Between
  /\ app.raf
  /\ app.isAnalyzing
  /\ pc = "idle"
  /\ \E t \in Later :
       LET interval == Interval(app.fpsTarget)
           elapsed == Elapsed(t, app.lastFrameTime)
       IN /\ IsDue(elapsed, interval)
          /\ app' = [app EXCEPT !.did = "processed", !.raf = FALSE,
                                !.loop = "calling", !.timestamp = t,
                                !.lastFrameTime = NextFrameTime(t, elapsed, interval),
                                !.calls = @ + 1]
  /\ UNCHANGED << build, shown, earlier, again, img, service >>

\* part_001:407-424 -- processFrame has returned: the frame is counted and
\* the next animation frame requested.
Returned ==
  /\ app.loop = "calling"
  /\ pc = "returned"
  /\ outcome = "returned"
  /\ app' = [app EXCEPT !.loop = "waiting", !.raf = TRUE, !.ended = "returned"]
  /\ pc' = "idle"
  /\ FreshLocals
  /\ UNCHANGED << build, shown, earlier, again, clusters, ci >>
  /\ img' = NoImage

\* part_001:398-405 -- processFrame has thrown: nothing in processLoop
\* catches, the callback ends there and line 424 is not reached.
Escaped ==
  /\ app.loop = "calling"
  /\ pc = "returned"
  /\ outcome = "thrown"
  /\ app' = [app EXCEPT !.loop = "waiting", !.did = "threw", !.ended = "thrown"]
  /\ pc' = "idle"
  /\ FreshLocals
  /\ UNCHANGED << build, shown, earlier, again, clusters, ci >>
  /\ img' = NoImage

\* cvService.ts:177-421 and :492-777 -- processFrame runs, called by
\* processLoop.  The engine is loaded then (see C13), so that the test of
\* line 186 lets the call in.
Called ==
  /\ app.loop = "calling"
  /\ app.engine
  /\ \/ Enter \/ GetContext \/ NoContext
     \/ Stage \/ MinMaxLoc \/ Throws
     \/ FindContours \/ GetContour \/ Features \/ FeaturesThrow
     \/ Release \/ ReleaseThrow
     \/ ClusterStart \/ Assign \/ ClusterEnd
     \/ Sort \/ Merge
     \/ Return \/ Cleanup \/ CleanupLenient

InitApp ==
  \E b \in {"clustering", "binary"} : \E e \in BOOLEAN : \E f \in FpsKinds :
    InitOf(b, "video", [Mounted(e) EXCEPT !.fpsTarget = f])

NextApp ==
  \/ EngineLoads \/ Poll
  \/ StartCamera \/ CameraStarts \/ CameraFails \/ StopCamera
  \/ StartAnalysis \/ StopAnalysis
  \/ Preview \/ NotDue \/ Due \/ Returned \/ Escaped
  \/ Called

SpecApp == InitApp /\ [][NextApp]_vars

\* ------------------------------------------------------ marker generation

\* A row of pixels of the image; masks hold 0 or 255 in each.
Row == 1..MaxPixels

\* cvService.ts:260-261 -- one pass of cv.dilate with the 3x3 kernel: a pixel
\* takes the largest value of its neighbourhood.
DilateOnce(mask) ==
  [p \in Row |->
     IF \E q \in Row : Abs(p - q) <= 1 /\ mask[q] # 0 THEN 255 ELSE 0]

\* cvService.ts:261 -- three iterations.
Dilate(mask) == DilateOnce(DilateOnce(DilateOnce(mask)))

\* cvService.ts:264 -- cv.distanceTransform: the distance of each pixel to the
\* nearest zero pixel; a mask without a zero pixel gives one large value.
DistanceTransform(mask) ==
  LET zeros == {q \in Row : mask[q] = 0}
  IN [p \in Row |->
        IF zeros = {} THEN MaxPixels
        ELSE CHOOSE d \in 0..MaxPixels :
               /\ \E q \in zeros : Abs(p - q) = d
               /\ \A q \in zeros : Abs(p - q) >= d]

\* cvService.ts:265-271 -- normalize to 0..1 (NORM_MINMAX; a constant map
\* becomes 0), threshold at 0.5 to 0 or 255, convert to 8 bit.
SureForeground(dist) ==
  LET lo == CHOOSE d \in Range(dist) : \A e \in Range(dist) : d <= e
      hi == CHOOSE d \in Range(dist) : \A e \in Range(dist) : d >= e
  IN [p \in Row |->
        IF hi > lo /\ 2 * (dist[p] - lo) > hi - lo THEN 255 ELSE 0]

\* cvService.ts:274 -- cv.subtract on 8-bit masks saturates at 0.
Subtract(a, b) == [p \in Row |-> IF a[p] - b[p] < 0 THEN 0 ELSE a[p] - b[p]]

\* cvService.ts:277 -- cv.connectedComponents: 0 where the mask is 0, and the
\* number of its component, counted from 1 in scan order, elsewhere.
ConnectedComponents(mask) ==
  [p \in Row |->
     IF mask[p] = 0 THEN 0
     ELSE Cardinality({q \in 1..p : mask[q] # 0 /\ (q = 1 \/ mask[q - 1] = 0)})]

\* Markers left as connectedComponents numbered them.
AddNothing(markers) == markers

\* cvService.ts:279-280 -- cv.add(markers, ones, markers).
AddOnes(markers) == [p \in Row |-> markers[p] + 1]

\* cvService.ts:282 -- markers.setTo(0, unknown): where the mask is not 0.
SetToZero(markers, mask) == [p \in Row |-> IF mask[p] # 0 THEN 0 ELSE markers[p]]

\* cvService.ts:256-282 -- the statement after step st of marker generation.
MarkerStage(px) ==
  CASE px.step = "solid_mask" ->
         [px EXCEPT !.step = "sure_bg", !.sure_bg = Dilate(px.solid_mask)]
    [] px.step = "sure_bg" ->
         [px EXCEPT !.step = "dist", !.dist = DistanceTransform(px.solid_mask)]
    [] px.step = "dist" ->
         [px EXCEPT !.step = "sure_fg_8u", !.sure_fg_8u = SureForeground(px.dist)]
    [] px.step = "sure_fg_8u" ->
         [px EXCEPT !.step = "unknown", !.unknown = Subtract(px.sure_bg, px.sure_fg_8u)]
    [] px.step = "unknown" ->
         [px EXCEPT !.step = "components", !.markers = ConnectedComponents(px.sure_fg_8u)]
    [] px.step = "components" ->
         [px EXCEPT !.step = "ones", !.markers = AddOnes(px.markers)]
    [] px.step = "ones" ->
         [px EXCEPT !.step = "markers", !.markers = SetToZero(px.markers, px.unknown)]

\* One statement of marker generation runs.
MarkerStep ==
  /\ img.px.step \in {"solid_mask", "sure_bg", "dist", "sure_fg_8u", "unknown",
                      "components", "ones"}
  /\ img' = [img EXCEPT !.px = MarkerStage(img.px)]
  /\ UNCHANGED << conf, service >>

\* cvService.ts:256-259 -- the filled contours are drawn into solid_mask: any
\* mask of the row.
InitMarkers ==
  \E b \in {"clustering", "binary"} : \E solid \in [Row -> {0, 255}] :
    /\ build = b /\ shown = "all" /\ pc = "stages"
    /\ k = 12 /\ ref = NullRefs /\ doubleDelete = FALSE
    /\ maxLabel = 0 /\ i = 2 /\ frame = << >>
    /\ detectedPills = << >> /\ clusters = << >> /\ ci = 1
    /\ finalPills = << >> /\ stats = << >>
    /\ pending = NoResult /\ result = NoResult /\ outcome = "none"
    /\ earlier = NoEarlier /\ again = NotAgain /\ app = Mounted(TRUE)
    /\ img = [NoImage EXCEPT !.px =
                [step |-> "solid_mask", solid_mask |-> solid, sure_bg |-> << >>,
                 dist |-> << >>, sure_fg_8u |-> << >>, unknown |-> << >>,
                 markers |-> << >>]]

SpecMarkers == InitMarkers /\ [][MarkerStep]_vars

\* ---------------------------------------------- clusterPills on its own

\* A Pill as line 343-363 pushes it, given by the features clusterPills reads:
\* area, hue, boosted saturation, value and circularity (in 1/FP).
MkPill(area, hue, saturation, value, circularity) ==
  [id |-> 0, x |-> 0, y |-> 0, area |-> area, radius |-> RadiusOf(area),
   hue |-> hue, saturation |-> saturation, value |-> value,
   circularity |-> circularity,
   status |-> "-", clusterLabel |-> "?", clusterColor |-> "#FFFFFF"]

\* The pills clusterPills is applied to: a pair of areas 1000 and 1050 alike
\* in everything else at saturation 50, 10 (grayscale) and 15; a pill at
\* weighted distance exactly 0.14 from the first (hue 54 and saturation 64
\* against hue 0 and saturation 50: 0.105 + 0.035); pills that fail one gate
\* against the first (area 1600, circularity 0.70, saturation 75); and pills
\* of hue 100 and 50, the second at equal distance from hue 0 and hue 100.
PillKinds ==
  { MkPill(1000, 0, 50, 80, 9000),
    MkPill(1050, 0, 50, 80, 9000),
    MkPill(1000, 54, 64, 80, 9000),
    MkPill(1000, 0, 10, 80, 9000),
    MkPill(1050, 0, 10, 80, 9000),
    MkPill(1000, 0, 15, 80, 9000),
    MkPill(1050, 0, 15, 80, 9000),
    MkPill(1600, 0, 50, 80, 9000),
    MkPill(1000, 0, 50, 80, 7000),
    MkPill(1000, 0, 75, 80, 9000),
    MkPill(1000, 100, 50, 80, 9000),
    MkPill(1000, 50, 50, 80, 9000) }

\* The pills of a label loop that kept every label: label j + 1 pushed the
\* j-th pill.
Numbered(f) == [j \in DOMAIN f |-> [f[j] EXCEPT !.id = j + 1]]

\* processFrame stands at position p of build b with the array detectedPills
\* holding pills.
InitAt(b, p, pills) ==
  /\ build = b
  /\ shown = "all"
  /\ pc = p
  /\ k = Len(IF b = "clustering" THEN StagesClustering ELSE StagesBinary) + 1
  /\ ref = NullRefs
  /\ doubleDelete = FALSE
  /\ maxLabel = Len(pills) + 1
  /\ i = Len(pills) + 2
  /\ frame = << >>
  /\ detectedPills = pills
  /\ clusters = << >>
  /\ ci = 1
  /\ finalPills = << >>
  /\ stats = << >>
  /\ pending = NoResult
  /\ result = NoResult
  /\ outcome = "none"
  /\ earlier = NoEarlier
  /\ again = NotAgain
  /\ app = Mounted(TRUE)
  /\ img = NoImage

\* cvService.ts:373 -- this.clusterPills(detectedPills) on up to MaxPills pills.
InitCluster ==
  \E n \in 0..MaxPills : \E f \in [1..n -> PillKinds] :
    InitAt("clustering", "cluster", Numbered(f))

NextCluster == ClusterStart \/ Assign \/ ClusterEnd

SpecCluster == InitCluster /\ [][NextCluster]_vars

\* ------------------------------------------- clusterPills on many pills

\* The j-th of 48 pills no two of which can share a cluster: they differ by
\* 90 degrees of hue or more (weighted distance 0.175 and up), by 25 or more
\* of saturation (gate) or by a factor 3 of area (gate).
ManyPill(j) ==
  MkPill(<<300, 1000, 3000>>[((j - 1) \div 16) + 1],
         90 * ((j - 1) % 4),
         20 + 25 * (((j - 1) \div 4) % 4),
         80, 9000)

\* cvService.ts:373 -- this.clusterPills(detectedPills) on up to MaxMany pills
\* that differ from each other, but for one that may be like the first.
InitMany ==
  \E n \in 0..MaxMany : \E d \in 0..n :
    InitAt("clustering", "cluster",
           Numbered([j \in 1..n |-> IF j = d /\ j > 1 THEN ManyPill(1) ELSE ManyPill(j)]))

SpecMany == InitMany /\ [][NextCluster]_vars

\* ---------------------------------------------- the merge step on its own

\* A round pill as the binary build pushes it (line 651-660), with its
\* centroid at (cx, cy) px.
MkDetection(cx, cy, area) ==
  BinaryPillOf(0, Region(TRUE, area, 112, cx, cy, 0, 50, 80))

\* The detections the merge step is applied to: pills of one radius along a
\* line at 0, 10, 25, 30 and 35 px, one at (18, 24), which lies exactly 30 px
\* from the origin, and larger pills at 10 and 35 px.
MergeKinds ==
  { MkDetection(0, 0, 1000),
    MkDetection(10, 0, 1000),
    MkDetection(25, 0, 1000),
    MkDetection(30, 0, 1000),
    MkDetection(35, 0, 1000),
    MkDetection(18, 24, 1000),
    MkDetection(10, 0, 1050),
    MkDetection(35, 0, 1050) }

\* cvService.ts:677 -- the label loop has ended with up to MaxPills pills.
InitMerge ==
  \E n \in 0..MaxPills : \E f \in [1..n -> MergeKinds] :
    InitAt("binary", "sort", Numbered(f))

\* cvService.ts:678-710 applied to the list it produced: sort by descending
\* radius, absorb within the threshold, average the positions.
Remerge ==
  /\ pc = "draw"
  /\ ~again.done
  /\ again' = [done |-> TRUE, pills |-> MergeSorted(SortByRadius(finalPills)).final]
  /\ UNCHANGED << build, shown, earlier, app, img, mem, loopv, data, ret, k, pc >>

NextMerge == Sort \/ Merge \/ Remerge

SpecMerge == InitMerge /\ [][NextMerge]_vars

\* ------------------------------------------------------------------ claims

\* C1 (as claimed): processFrame never throws to its caller; after a failure
\* (engine not ready, no 2D context, an exception in any stage, in the label
\* loop or during cleanup) it returns the empty result.
C1_NeverThrows ==
  pc = "returned" =>
    /\ outcome = "returned"
    /\ (pending = EmptyResult => result = EmptyResult)

\* C2 (as claimed): when processFrame has ended, on any exit path, no buffer
\* allocated during the invocation is still live.
C2_AllReleased ==
  pc = "returned" => \A b \in Buffers : ref[b] # "live"

\* C3: processFrame keeps no state between invocations.  An invocation that
\* returns counts for a frame returns what an earlier invocation returned for
\* the same frame, whatever was processed in between; its clusters hold the
\* pills of this invocation only, and its first cluster is labelled "A".
C3_NoStateBetweenInvocations ==
  (pc = "returned" /\ outcome = "returned" /\ result.kind \in {"clusters", "counts"}) =>
    /\ (earlier.kind = "some" /\ earlier.maxLabel = maxLabel /\ earlier.frame = frame)
         => result = earlier.result
    /\ result.kind = "clusters" =>
         /\ result.totalCount = Len(detectedPills)
         /\ result.clusters # << >> => result.clusters[1].label = "Group A"

\* C3's case: a frame with pills is processed again after another invocation
\* lay in between.
C3_Witness ==
  /\ pc = "returned" /\ outcome = "returned" /\ result.kind = "clusters"
  /\ earlier.kind = "some" /\ earlier.between
  /\ earlier.maxLabel = maxLabel /\ earlier.frame = frame
  /\ result.totalCount >= 2

\* The region findContours returned for label n.
RegionOf(n) == frame[n - 1]

\* Every Pill object the invocation holds: pushed, merged or clustered.
AllPills ==
  Range(detectedPills) \cup Range(finalPills)
  \cup UNION {Range(clusters[j].members) \cup {clusters[j].center} : j \in 1..Len(clusters)}

\* The labels of the frame whose area lies in the window of the build.
InWindow ==
  {n \in 2..(Len(frame) + 1) :
     /\ RegionOf(n).contour
     /\ RegionOf(n).area > 200
     /\ RegionOf(n).area < (IF build = "clustering" THEN 10000 ELSE 8000)}

\* C4: a region whose area is not strictly above 200 or not strictly below
\* the upper bound (10000 clustering, 8000 binary) appears in no output: it
\* is no merge candidate, no survivor, no member or representative of a
\* cluster, and the returned counts cover in-window regions only.
C4_OutOfWindowExcluded ==
  /\ \A p \in AllPills : p.id \in InWindow
  /\ \A a, b \in 1..Len(detectedPills) : a # b => detectedPills[a].id # detectedPills[b].id
  /\ result.kind = "clusters" =>
       /\ result.totalCount <= Cardinality(InWindow)
       /\ SumOver([j \in 1..Len(result.clusters) |-> result.clusters[j].count],
                  1..Len(result.clusters)) <= Cardinality(InWindow)
  /\ result.kind = "counts" =>
       result.normalCount + result.brokenCount <= Cardinality(InWindow)

\* C4's case: a frame with the 50 px^2 speck, a region of area exactly at an
\* edge of the window and a pill has been counted: one object.
C4_Witness ==
  /\ pc = "returned" /\ result.kind \in {"clusters", "counts"}
  /\ \E a, b, c \in 1..Len(frame) :
       /\ frame[a].area = 50
       /\ frame[b].area \in {200, 8000, 10000} /\ (b + 1) \notin InWindow
       /\ frame[c].area = 1000
  /\ Len(finalPills) = 1

\* C5: every detected object, survivors of the merge and members of
\* clusters included, has radius = sqrt(area / pi) (to the 1/10 px the radius
\* is held in), and its area is still the area of its region.
C5_RadiusFromArea ==
  \A p \in AllPills :
    /\ RADIUS_DEN * p.radius * p.radius <= RADIUS_NUM * p.area
    /\ RADIUS_NUM * p.area < RADIUS_DEN * (p.radius + 1) * (p.radius + 1)
    /\ p.area = RegionOf(p.id).area

\* C5's case: a survivor of the merge step that absorbed another pill and
\* was moved by it.
C5_Witness ==
  /\ pc = "returned" /\ result.kind = "counts"
  /\ Len(finalPills) < Len(detectedPills)
  /\ \E j \in 1..Len(finalPills) :
       finalPills[j].x # RegionOf(finalPills[j].id).cx * POS

\* C6: in binary mode a pill is normal exactly when 4 pi area / perimeter^2
\* is strictly above 0.65, and broken otherwise; the pill of area 1000 and
\* perimeter 112 is normal.
C6_StatusByCircularity ==
  build = "binary" =>
    \A p \in AllPills :
      LET r == RegionOf(p.id) IN
      /\ p.status = "normal" <=>
           FOUR_PI * r.area > CIRC_THRESHOLD * r.perimeter * r.perimeter
      /\ p.status \in {"normal", "broken"}
      /\ (r.area = 1000 /\ r.perimeter = 112) => p.status = "normal"

\* C6's case: the pill of area 1000 and perimeter 112 counted normal beside
\* a fragment whose circularity is 0.65, counted broken.
C6_Witness ==
  /\ pc = "returned" /\ build = "binary"
  /\ result.kind = "counts" /\ result.normalCount = 1 /\ result.brokenCount = 1
  /\ \E a, b \in 1..Len(finalPills) :
       /\ RegionOf(finalPills[a].id).area = 1000
       /\ RegionOf(finalPills[a].id).perimeter = 112
       /\ finalPills[a].status = "normal"
       /\ Circularity(RegionOf(finalPills[b].id).area,
                      RegionOf(finalPills[b].id).perimeter) = CIRC_THRESHOLD
       /\ finalPills[b].status = "broken"

\* The clusters whose gates the pill passes, and among them those at the
\* smallest weighted distance from it.
Gated(pill, cs) == {j \in 1..Len(cs) : PassesGates(pill, cs[j].center)}

Nearest(pill, cs) ==
  {j \in Gated(pill, cs) :
     \A h \in Gated(pill, cs) :
       weightedDist(pill, cs[j].center) <= weightedDist(pill, cs[h].center)}

\* C7: in clusterPills a pill joins an existing cluster exactly when some
\* cluster passed the gates and the smallest weighted distance among those is
\* strictly below 0.14; it then becomes a member of a cluster at that smallest
\* distance and no cluster is added.  Otherwise, and so when the smallest
\* distance is exactly 0.14, it founds a new cluster of which it is the centre
\* and the only member.
C7_JoinBelowThreshold ==
  [][(pc = "assign" /\ ci' = ci + 1) =>
       LET p == detectedPills[ci]
           n == Len(clusters)
           below == \E j \in Gated(p, clusters) :
                      weightedDist(p, clusters[j].center) < 140000
           atThreshold == /\ Gated(p, clusters) # {}
                          /\ \A j \in Nearest(p, clusters) :
                               weightedDist(p, clusters[j].center) = 140000
       IN /\ below <=> Len(clusters') = n
          /\ below =>
               \E j \in Nearest(p, clusters) :
                 /\ clusters'[j].members = Append(clusters[j].members, p)
                 /\ clusters'[j].center = clusters[j].center
                 /\ \A h \in (1..n) \ {j} : clusters'[h] = clusters[h]
          /\ ~below =>
               /\ Len(clusters') = n + 1
               /\ clusters'[n + 1].center = p
               /\ clusters'[n + 1].members = <<p>>
               /\ \A h \in 1..n : clusters'[h] = clusters[h]
          /\ atThreshold => Len(clusters') = n + 1
  ]_vars

\* C7's case: the second pill, at weighted distance exactly 0.14 from the
\* only cluster and through its gates, founded cluster B; a third pill then
\* joined cluster A.
C7_Witness ==
  /\ pc = "assign" /\ ci = 4
  /\ Len(clusters) = 2
  /\ PassesGates(detectedPills[2], clusters[1].center)
  /\ weightedDist(detectedPills[2], clusters[1].center) = 140000
  /\ clusters[2].center = detectedPills[2]
  /\ clusters[1].members = <<detectedPills[1], detectedPills[3]>>

\* C8: clusterPills given exactly two pills of area 1000 and 1050 (in either
\* order) with equal hue, saturation, value and circularity returns one
\* cluster, labelled A, of count 2, holding both pills, whether the shared
\* saturation is below 15 (grayscale), at 15 or above.
C8_TwoAreasOneCluster ==
  (/\ pc = "draw"
   /\ Len(detectedPills) = 2
   /\ {detectedPills[1].area, detectedPills[2].area} = {1000, 1050}
   /\ detectedPills[1].hue = detectedPills[2].hue
   /\ detectedPills[1].saturation = detectedPills[2].saturation
   /\ detectedPills[1].value = detectedPills[2].value
   /\ detectedPills[1].circularity = detectedPills[2].circularity)
  => /\ stats = << [label |-> "Group A", count |-> 2, color |-> "#00FFFF"] >>
     /\ Len(clusters) = 1 /\ clusters[1].label = "A"
     /\ Len(finalPills) = 2
     /\ \A j \in 1..2 : /\ finalPills[j].clusterLabel = "A"
                        /\ finalPills[j].id = detectedPills[j].id

\* C8's case: the two pills are grayscale (shared saturation 10), the larger
\* one first, and clusterPills has returned.
C8_Witness ==
  /\ pc = "draw"
  /\ Len(detectedPills) = 2
  /\ detectedPills[1].area = 1050 /\ detectedPills[2].area = 1000
  /\ detectedPills[1].saturation = 10 /\ detectedPills[2].saturation = 10
  /\ detectedPills[1].hue = detectedPills[2].hue
  /\ detectedPills[1].value = detectedPills[2].value
  /\ detectedPills[1].circularity = detectedPills[2].circularity
  /\ Len(stats) = 1 /\ stats[1].count = 2

\* Whether the centroids of the pills at positions a and b of the sorted
\* array lie at Euclidean distance strictly below 30 px.
Within30(a, b) ==
  LET dx == detectedPills[a].x - detectedPills[b].x
      dy == detectedPills[a].y - detectedPills[b].y
  IN dx * dx + dy * dy < (30 * POS) * (30 * POS)

\* The positions of the sorted array that are not absorbed: those with no
\* earlier survivor within 30 px.
Survivors ==
  CHOOSE S \in SUBSET (1..Len(detectedPills)) :
    \A a \in 1..Len(detectedPills) :
      a \in S <=> \A h \in S : h < a => ~Within30(h, a)

\* What survivor h absorbs: the later positions within 30 px of it that no
\* earlier survivor took.
AbsorbedBy(h) ==
  {j \in (h + 1)..Len(detectedPills) :
     /\ Within30(h, j)
     /\ \A e \in Survivors : e < h => ~Within30(e, j)}

\* C9: in the merge step every not-yet-processed object at Euclidean distance
\* strictly below 30 px from the pre-merge position of the unabsorbed object
\* being processed is absorbed; the output holds the survivors in order, each
\* unchanged but for its position, which is the arithmetic mean of its own
\* pre-merge position and those of the objects it absorbed.  Two detections
\* 10 px apart give one object at their midpoint.
C9_AbsorbAndAverage ==
  [][(pc = "merge" /\ pc' = "draw") =>
       /\ Len(finalPills') = Cardinality(Survivors)
       /\ \A h \in Survivors :
            LET r == Cardinality({e \in Survivors : e <= h})
                group == AbsorbedBy(h) \cup {h}
                sumX == SumOver([j \in group |-> detectedPills[j].x], group)
                sumY == SumOver([j \in group |-> detectedPills[j].y], group)
                out == finalPills'[r]
            IN /\ out = [detectedPills[h] EXCEPT !.x = out.x, !.y = out.y]
               /\ out.x * Cardinality(group) = sumX
               /\ out.y * Cardinality(group) = sumY
       /\ ( /\ Len(detectedPills) = 2
            /\ Abs(detectedPills[1].x - detectedPills[2].x) = 10 * POS
            /\ detectedPills[1].y = detectedPills[2].y )
          => /\ Len(finalPills') = 1
             /\ 2 * finalPills'[1].x = detectedPills[1].x + detectedPills[2].x
             /\ finalPills'[1].y = detectedPills[1].y
  ]_vars

\* C9's case: of two detections at 0 and 10 px the merge step has left one
\* object, at 5 px.
C9_Witness ==
  /\ pc = "draw" /\ build = "binary"
  /\ Len(detectedPills) = 2
  /\ detectedPills[2].x = 10 * POS
  /\ Len(finalPills) = 1
  /\ finalPills[1].x = 5 * POS /\ finalPills[1].y = 0
  /\ finalPills[1].id = detectedPills[1].id

\* C10 (as claimed): the merge step applied to its own output returns the
\* same list of objects at the same positions; no further merge occurs.
C10_MergeIdempotent ==
  again.done => again.pills = finalPills

\* The ids of the pills of a list.
IdsOf(ps) == {ps[j].id : j \in 1..Len(ps)}

\* C11: in the merge step each detected object is output exactly once as a
\* survivor or absorbed by exactly one survivor, never both, never neither;
\* an absorbed object's radius is at most its survivor's; the survivor keeps
\* its id, area, radius, colour and status; and the counts the binary build
\* returns add up to the number of survivors.
C11_SurvivorOrAbsorbedOnce ==
  [][ /\ (pc = "merge" /\ pc' = "draw") =>
           LET n == Len(detectedPills)
               out(h) == finalPills'[Cardinality({e \in Survivors : e <= h})]
               owners(j) == {h \in Survivors : j \in AbsorbedBy(h)}
           IN /\ Len(finalPills') = Cardinality(Survivors)
              /\ \A a, b \in 1..Len(finalPills') :
                   a # b => finalPills'[a].id # finalPills'[b].id
              /\ IdsOf(finalPills') = {detectedPills[h].id : h \in Survivors}
              /\ \A j \in 1..n :
                   /\ j \in Survivors => owners(j) = {}
                   /\ j \notin Survivors =>
                        /\ Cardinality(owners(j)) = 1
                        /\ detectedPills[j].id \notin IdsOf(finalPills')
                        /\ \A h \in owners(j) :
                             detectedPills[j].radius <= detectedPills[h].radius
              /\ \A h \in Survivors :
                   /\ out(h).id = detectedPills[h].id
                   /\ out(h).area = detectedPills[h].area
                   /\ out(h).radius = detectedPills[h].radius
                   /\ out(h).hue = detectedPills[h].hue
                   /\ out(h).saturation = detectedPills[h].saturation
                   /\ out(h).value = detectedPills[h].value
                   /\ out(h).status = detectedPills[h].status
              /\ SumOver([h \in Survivors |->
                            (1 + Cardinality(AbsorbedBy(h))) * out(h).x], Survivors)
                 = SumOver([j \in 1..n |-> detectedPills[j].x], 1..n)
      /\ (pc = "draw" /\ pc' = "finally" /\ pending'.kind = "counts") =>
           pending'.normalCount + pending'.brokenCount = Len(finalPills)
    ]_vars

\* C11's case: the binary build returned counts after a larger pill absorbed
\* a smaller one, which is in the array still and not in the output.
C11_Witness ==
  /\ pc = "returned" /\ build = "binary" /\ result.kind = "counts"
  /\ Len(detectedPills) = 3 /\ Len(finalPills) = 2
  /\ result.normalCount + result.brokenCount = 2
  /\ \E j \in 1..Len(detectedPills) :
       /\ detectedPills[j].id \notin IdsOf(finalPills)
       /\ detectedPills[j].radius < finalPills[1].radius

\* The places (cluster, position) at which the pill of id n is a member.
PlacesOf(n) ==
  {pl \in UNION {{<<c, m>> : m \in 1..Len(clusters[c].members)} : c \in 1..Len(clusters)} :
     clusters[pl[1]].members[pl[2]].id = n}

\* The sum of the count fields of a list of cluster stats.
CountSum(st) == SumOver([j \in 1..Len(st) |-> st[j].count], 1..Len(st))

\* C12: in clustering mode the clusters partition the detected objects: once
\* clusterPills has handled them, every detected object is a member of
\* exactly one cluster and no cluster is empty; the returned totalCount is
\* the sum of the returned count fields and the number of detected objects.
C12_ClustersPartition ==
  build = "clustering" =>
    /\ pc \in {"assign", "draw"} =>
         /\ \A j \in 1..Len(detectedPills) :
              Cardinality(PlacesOf(detectedPills[j].id)) =
                (IF pc = "draw" \/ j < ci THEN 1 ELSE 0)
         /\ \A c \in 1..Len(clusters) : Len(clusters[c].members) >= 1
    /\ pc = "draw" =>
         /\ Len(stats) = Len(clusters)
         /\ \A c \in 1..Len(stats) : stats[c].count = Len(clusters[c].members)
         /\ IdsOf(finalPills) = IdsOf(detectedPills)
         /\ Len(finalPills) = Len(detectedPills)
    /\ result.kind = "clusters" =>
         /\ result.totalCount = CountSum(result.clusters)
         /\ result.totalCount = Len(detectedPills)
         /\ \A c \in 1..Len(result.clusters) : result.clusters[c].count >= 1

\* C12's case: three detected objects were returned as two clusters, of two
\* members and of one.
C12_Witness ==
  /\ build = "clustering" /\ pc = "returned" /\ result.kind = "clusters"
  /\ Len(detectedPills) = 3
  /\ result.totalCount = 3
  /\ Len(result.clusters) = 2
  /\ result.clusters[1].count = 2 /\ result.clusters[2].count = 1

\* C13: in the App processFrame is never invoked before a poll of isReady has
\* returned true.  isReady is polled while the interval runs, which is until
\* the first true; the camera is started only after that; analysis is
\* switched on only while the camera is active; and processLoop calls
\* processFrame only while analysis is on.
C13_ReadyBeforeProcessFrame ==
  [][ /\ (app.polling <=> app.lastPoll # "true")
      /\ (app.cvReady <=> app.lastPoll = "true")
      /\ app'.lastPoll # app.lastPoll =>
           /\ app.polling
           /\ app'.lastPoll = "true" <=> app.engine
      /\ app.lastPoll = "true" => (app'.lastPoll = "true" /\ ~app'.polling)
      /\ (app.camera = "off" /\ app'.camera # "off") => app.lastPoll = "true"
      /\ (~app.isAnalyzing /\ app'.isAnalyzing) => app.camera = "on"
      /\ (app.loop = "waiting" /\ app'.loop = "calling") =>
           /\ app.isAnalyzing /\ app.camera = "on"
           /\ app.lastPoll = "true" /\ app.engine
      /\ pc' # pc =>
           /\ app.loop = "calling"
           /\ app.lastPoll = "true" /\ app.engine
           /\ app.isAnalyzing
    ]_vars

\* C13's case: processFrame, called by processLoop after the poll that
\* returned true stopped the polling, has returned counts.
C13_Witness ==
  /\ app.loop = "calling"
  /\ pc = "returned" /\ outcome = "returned"
  /\ result.kind \in {"clusters", "counts"}
  /\ app.lastPoll = "true" /\ ~app.polling
  /\ app.camera = "on" /\ app.isAnalyzing

\* C14 (as claimed): a failed processFrame call does not stop the per-frame
\* loop: whenever no call is under way, an animation frame is requested, so
\* that the next due frame makes a fresh call.
C14_LoopGoesOn ==
  app.loop = "waiting" => app.raf

\* C15 (as claimed): in clustering mode too the detected objects pass through
\* the merge step before they are counted: when two detected regions lie
\* less than 30 px apart, fewer objects are counted than were detected.
C15_MergedBeforeCounted ==
  (result.kind = "clusters" /\
   \E a, b \in 1..Len(detectedPills) : a # b /\ Within30(a, b))
  => /\ result.totalCount < Len(detectedPills)
     /\ CountSum(result.clusters) < Len(detectedPills)

\* C16: every member of a cluster other than its representative is, against
\* the representative, within relative area difference 0.35, circularity
\* difference 0.18 and saturation difference 20, and at weighted distance
\* strictly below 0.14; a cluster that fails a gate is not joined, whatever
\* its weighted distance and also when it is the only cluster.
C16_MembersWithinGates ==
  \A c \in 1..Len(clusters) :
    LET rep == clusters[c].center IN
    \A m \in 2..Len(clusters[c].members) :
      LET p == clusters[c].members[m]
          hi == Max2(p.area, rep.area)
      IN /\ Abs(p.area - rep.area) * 100 <= 35 * hi
         /\ Abs(p.circularity - rep.circularity) <= 1800
         /\ Abs(p.saturation - rep.saturation) <= 20
         /\ weightedDist(p, rep) < 140000

\* C16's case: clusterPills has returned; the second pill, with but one
\* cluster to join, at weighted distance below 0.14 from it, failed its
\* saturation gate and founded cluster B.
C16_Witness ==
  /\ pc = "draw" /\ build = "clustering"
  /\ Len(clusters) = 2
  /\ clusters[2].center = detectedPills[2]
  /\ weightedDist(detectedPills[2], clusters[1].center) < 140000
  /\ Abs(detectedPills[2].saturation - clusters[1].center.saturation) > 20
  /\ Len(clusters[1].members) = 2

\* C17: a cluster's representative is the first object admitted to it, and
\* no later admission changes it; whether an object joins, and which cluster,
\* depends on the representatives only: it joins a cluster whose
\* representative is nearest among those through whose gates it passes.
C17_RepresentativeIsFirst ==
  [][ /\ \A c \in 1..Len(clusters') :
           clusters'[c].center = clusters'[c].members[1]
      /\ (pc = "assign" /\ ci' = ci + 1) =>
           /\ \A c \in 1..Len(clusters) :
                /\ clusters'[c].center = clusters[c].center
                /\ Len(clusters'[c].members) > Len(clusters[c].members) =>
                     /\ c \in Nearest(detectedPills[ci], clusters)
                     /\ weightedDist(detectedPills[ci], clusters[c].center) < 140000
           /\ Len(clusters') > Len(clusters) =>
                \A c \in Gated(detectedPills[ci], clusters) :
                  weightedDist(detectedPills[ci], clusters[c].center) >= 140000
    ]_vars

\* C17's case: the third pill founded cluster B although it is nearer than
\* 0.14 to the second member of cluster A and through that member's gates:
\* it is farther than 0.14 from the representative of A.
C17_Witness ==
  /\ pc = "assign" /\ ci = 4
  /\ Len(clusters) = 2
  /\ clusters[1].members = <<detectedPills[1], detectedPills[2]>>
  /\ clusters[2].center = detectedPills[3]
  /\ PassesGates(detectedPills[3], detectedPills[2])
  /\ weightedDist(detectedPills[3], detectedPills[2]) < 140000
  /\ PassesGates(detectedPills[3], detectedPills[1])
  /\ weightedDist(detectedPills[3], detectedPills[1]) > 140000

\* The letters of the alphabet, in order.
Alphabet ==
  <<"A", "B", "C", "D", "E", "F", "G", "H", "I", "J", "K", "L", "M",
    "N", "O", "P", "Q", "R", "S", "T", "U", "V", "W", "X", "Y", "Z">>

\* C18: within one invocation the k-th cluster created (k = 0, 1, ...) has
\* the k-th label of A, B, C, ... and the palette entry k mod 6; the labels of
\* distinct clusters differ; and the returned list is in creation order.
C18_LabelsAndColoursInOrder ==
  /\ \A c \in 1..Len(clusters) :
       /\ c <= Len(Alphabet) => clusters[c].label = Alphabet[c]
       /\ clusters[c].colorHex =
            <<"#00FFFF", "#FF00FF", "#FFFF00", "#00FF00", "#FFA500", "#FF0000">>
              [((c - 1) % 6) + 1]
       /\ \A d \in 1..Len(clusters) : d # c => clusters[d].label # clusters[c].label
       /\ \A d \in 1..Len(clusters) :
            d < c => clusters[d].center.id < clusters[c].center.id
  /\ pc = "draw" =>
       /\ Len(stats) = Len(clusters)
       /\ \A c \in 1..Len(stats) :
            /\ stats[c].label = "Group " \o clusters[c].label
            /\ stats[c].color = clusters[c].colorHex

\* C18's case: clusterPills returned eight clusters or more; the seventh,
\* Group G, has the first palette entry again, and Group A has two members.
C18_Witness ==
  /\ pc = "draw"
  /\ Len(stats) >= 8
  /\ stats[7] = [label |-> "Group G", count |-> 1, color |-> "#00FFFF"]
  /\ stats[8].color = "#FF00FF"
  /\ stats[1].count = 2

\* C19 (as claimed): every cluster identifier clusterPills produces is one
\* letter from A to Z, however many clusters a frame gives rise to.
C19_SingleLetter ==
  \A c \in 1..Len(clusters) : clusters[c].label \in Range(Alphabet)

\* C20: no object with perimeter 0, or circularity 0 or less, reaches
\* classification in either build: every pill pushed, merged or clustered
\* comes from a region of positive perimeter and, in the clustering build,
\* has positive circularity; a region of perimeter 0 is skipped, and the label
\* loop goes on after it.
C20_NoZeroPerimeterClassified ==
  [][ /\ \A p \in AllPills' :
           /\ frame'[p.id - 1].perimeter > 0
           /\ build = "clustering" => p.circularity > 0
           /\ build = "binary" => p.status \in {"normal", "broken"}
      /\ (pc = "features" /\ frame[Len(frame)].perimeter = 0) =>
           /\ detectedPills' = detectedPills
           /\ pc' \in {"release", "finally"}
           /\ pc' = "finally" => pending' = EmptyResult
    ]_vars

\* C20's case: the clustering build met a single-pixel contour and after it
\* a pill, and returned one cluster of one object.
C20_Witness ==
  /\ pc = "returned" /\ build = "clustering" /\ result.kind = "clusters"
  /\ Len(frame) = 2
  /\ frame[1].contour /\ frame[1].perimeter = 0
  /\ frame[2].area = 1000
  /\ result.totalCount = 1 /\ Len(result.clusters) = 1

\* The seed components of the row: the pixels at which a run of
\* sure-foreground begins.
SeedStarts == {p \in Row : img.px.sure_fg_8u[p] # 0 /\ (p = 1 \/ img.px.sure_fg_8u[p - 1] = 0)}

\* C21: after marker generation, before the watershed, a pixel of the marker
\* map is 0 exactly when it is sure-background and not sure-foreground, at
\* least 2 exactly when it is sure-foreground, and 1 otherwise; two
\* sure-foreground pixels carry the same label exactly when they lie in the
\* same connected seed component; with n components the labels in use are
\* exactly 2..n+1.
C21_MarkerMap ==
  img.px.step = "markers" =>
    LET m == img.px.markers
        fg == {p \in Row : img.px.sure_fg_8u[p] # 0}
        bg == {p \in Row : img.px.sure_bg[p] # 0}
    IN /\ \A p \in Row :
            /\ m[p] = 0 <=> (p \in bg /\ p \notin fg)
            /\ m[p] >= 2 <=> p \in fg
            /\ (p \notin bg /\ p \notin fg) => m[p] = 1
            /\ m[p] >= 0
       /\ \A p, q \in fg :
            p <= q => (m[p] = m[q] <=> \A r \in p..q : r \in fg)
       /\ {m[p] : p \in fg} = 2..(Cardinality(SeedStarts) + 1)

\* C21's case: a marker map with two seed components, unknown pixels
\* between and around them, and background farther off.
C21_Witness ==
  /\ img.px.step = "markers"
  /\ Cardinality(SeedStarts) = 2
  /\ \E p, q, r, t \in Row :
       /\ img.px.markers[p] = 2 /\ img.px.markers[q] = 3
       /\ img.px.markers[r] = 0 /\ img.px.markers[t] = 1

\* The stages of processFrame that read image pixels.
ReadingStages == {"gray", "watershed", "mean"}

\* The draw calls of processFrame on an image buffer.
DrawCalls == {"drawContours", "circle", "putText"}

\* C22: the buffer given to the grayscale/edge stage, to the watershed and to
\* mean-colour sampling is the one produced by contrast scaling followed by
\* gamma correction; none of these stages reads the unenhanced source.
C22_StagesReadEnhanced ==
  \A st \in ReadingStages :
    img.read[st] # <<"none">> =>
      /\ Len(img.read[st]) >= 2
      /\ img.read[st][1] = "contrast"
      /\ img.read[st][2] = "gamma"

\* C23: within one invocation no draw call (contour, circle, text) has written
\* the buffer from which the mean colour of a region is sampled: annotation
\* comes strictly after the feature extraction of every label.
C23_SampledBeforeAnnotation ==
  \A call \in DrawCalls : call \notin Range(img.read["mean"])

\* C24: for a region that passed the area filter, the mean colour is sampled
\* through the eroded mask when that mask has more than 10 non-zero pixels
\* and through the uneroded region mask otherwise (0 included); the region is
\* pushed as a detected object in both cases, and the mask sampled has at
\* least one pixel.
C24_ErosionFallback ==
  [][ (pc = "features" /\ pc' = "release") =>
        LET r == frame[Len(frame)]
            passed == IF build = "clustering" THEN AreaOkClustering(r.area)
                      ELSE AreaOkBinary(r.area, r.perimeter)
            sample == img'.sample
        IN IF passed
           THEN /\ sample.mask \in {"innerMask", "tempMask"}
                /\ sample.mask = "innerMask" <=> sample.nonZero > 10
                /\ sample.mask = "tempMask" <=> sample.nonZero <= 10
                /\ sample.pixels > 0
                /\ Len(detectedPills') = Len(detectedPills) + 1
                /\ detectedPills'[Len(detectedPills')].id = i
                /\ detectedPills'[Len(detectedPills')].area = r.area
           ELSE /\ sample.mask = "none"
                /\ detectedPills' = detectedPills
    ]_vars

\* C24's case: erosion left nothing of a region inside the area window, the
\* uneroded mask was sampled and the region was pushed.
C24_Witness ==
  /\ pc = "release"
  /\ img.sample.mask = "tempMask" /\ img.sample.nonZero = 0
  /\ img.sample.pixels > 200
  /\ detectedPills # << >>
  /\ detectedPills[Len(detectedPills)].id = i

\* C25: with a fixed fpsTarget, processLoop calls processFrame only when
\* strictly more than 1000/fpsTarget ms have elapsed since lastFrameTime; the
\* number of calls made up to animation timestamp T never exceeds
\* T*fpsTarget/1000; and when a call begins, the call before it has returned.
C25_BoundedRateOneAtATime ==
  [][ /\ app'.fpsTarget = app.fpsTarget
      /\ app'.calls * 1000 <= app'.timestamp * app'.fpsTarget
      /\ app'.calls # app.calls =>
           /\ app'.calls = app.calls + 1
           /\ (app'.timestamp - app.lastFrameTime) * app.fpsTarget > 1000
           /\ app.loop = "waiting" /\ pc = "idle"
           /\ app.calls > 0 => app.ended = "returned"
    ]_vars

\* C26: on no path of processFrame is a buffer released twice or used after
\* its release: the finally block deletes nothing already deleted, the label
\* loop reads tempContours only while it is live, and the features of a label
\* are taken from a live contour.
C26_NoDoubleReleaseNoUseAfter ==
  /\ ~doubleDelete
  /\ pc \in {"find", "get", "features"} => ref["tempContours"] = "live"
  /\ pc = "features" => ref["contour"] = "live"

\* C27: after the merge step, any two distinct survivors had pre-merge
\* centroids at Euclidean distance 30 px or more from each other.
C27_SurvivorsApart ==
  [][(pc = "merge" /\ pc' = "draw") =>
       \A a, b \in 1..Len(finalPills') :
         a # b =>
           \E h \in 1..Len(detectedPills) : \E g \in 1..Len(detectedPills) :
             /\ h # g
             /\ detectedPills[h].id = finalPills'[a].id
             /\ detectedPills[g].id = finalPills'[b].id
             /\ (detectedPills[h].x - detectedPills[g].x) * (detectedPills[h].x - detectedPills[g].x)
                + (detectedPills[h].y - detectedPills[g].y) * (detectedPills[h].y - detectedPills[g].y)
                >= (30 * POS) * (30 * POS)
  ]_vars

\* C27's case: of detections at 0, 10 and 30 px two survive, those detected
\* at 0 and at 30 px; the first has moved to 5 px, 25 px from the second.
C27_Witness ==
  /\ pc = "draw" /\ build = "binary"
  /\ Len(detectedPills) = 3 /\ Len(finalPills) = 2
  /\ finalPills[1].x = 5 * POS /\ finalPills[1].y = 0
  /\ finalPills[2].x = 30 * POS /\ finalPills[2].y = 0
  /\ finalPills[1].id # finalPills[2].id

\* C28: when several clusters pass the gates with the same smallest weighted
\* distance, the pill joins the one created earliest: the cluster it joins is
\* the first of those at the smallest distance, so that a later cluster
\* replaces the best candidate only when strictly nearer.
C28_TieJoinsEarliest ==
  [][(pc = "assign" /\ ci' = ci + 1) =>
       LET p == detectedPills[ci]
           tied == Nearest(p, clusters)
       IN \A c \in 1..Len(clusters) :
            Len(clusters'[c].members) > Len(clusters[c].members) =>
              /\ c \in tied
              /\ \A h \in tied : c <= h
              /\ clusters'[c].members = Append(clusters[c].members, p)
              /\ \A h \in 1..Len(clusters) : h # c => clusters'[h] = clusters[h]
  ]_vars

\* C28's case: clusters A and B both pass the third pill through their gates
\* at the same distance, below 0.14, and the pill has joined A.
C28_Witness ==
  /\ pc = "assign" /\ ci = 4
  /\ Len(clusters) = 2
  /\ clusters[2].members = <<detectedPills[2]>>
  /\ PassesGates(detectedPills[3], clusters[1].center)
  /\ PassesGates(detectedPills[3], clusters[2].center)
  /\ weightedDist(detectedPills[3], clusters[1].center)
       = weightedDist(detectedPills[3], clusters[2].center)
  /\ weightedDist(detectedPills[3], clusters[1].center) < 140000
  /\ clusters[1].members = <<detectedPills[1], detectedPills[3]>>

====
